---- MODULE Spec2Model ----
(***************************************************************************)
(* Model of the calendar/leave assistant (repository ilham210538/vsPOC).    *)
(*                                                                         *)
(*   Part I  : CalendarAgent.process_message and _handle_tool_calls        *)
(*             (src/src/enhanced_agent.py), the conversation run driver,   *)
(*             against a nondeterministic backend.  Specification SpecTurn.*)
(*   Part II : ApprovalCallbackService (src/src/approval_callback.py), the *)
(*             approval tracker and its notifications.  Specification      *)
(*             SpecApproval; with callbacks of any status, SpecCallback.   *)
(*   Part III: request_leave_approval (src/src/tools/logic_app_tool.py)    *)
(*             and the callback HTTP handler.  Specification SpecLeave.    *)
(*   Part IV : AgentSession (src/src/agent_session.py).  Specifications    *)
(*             SpecSession and SpecCore.                                   *)
(*   Part V  : the callback server thread and the chat loop                *)
(*             (src/src/interactive_chat.py) interleaved.  Specification   *)
(*             SpecThreads.                                                *)
(*                                                                         *)
(* Python values are modelled as strings, numbers, records and tuples of   *)
(* strings; a formatted message is the tuple of its parts.                 *)
(***************************************************************************)
EXTENDS Integers, Sequences, FiniteSets, TLC

VARIABLES
    \* ---- Part I: one call of CalendarAgent.process_message ----
    pc,              \* "idle" (not called yet), "poll" (in the while loop), "done" (returned)
    iterations,      \* local variable iterations
    run_status,      \* run.status of the run object the driver holds
    thread,          \* backend thread: messages, newest first (as messages.list returns them)
    all_tool_calls,  \* local list all_tool_calls
    tool_calls,      \* the batch read from run.required_action in the latest loop pass
    tool_outputs,    \* the outputs passed to submit_tool_outputs in the latest loop pass
    issued,          \* backend: number of tool call ids minted for this run
    result,          \* the dict process_message returned
    \* ---- Part II: ApprovalCallbackService and the module-level notification stores ----
    pending_approvals,            \* self.pending_approvals: id -> record
    approval_responses,           \* self.approval_responses: id -> record
    notification_queue,           \* the module-level queue.Queue, oldest first
    global_recent_notifications,  \* the module-level list of notifications with a timestamp
    now,                          \* time.time(), in seconds
    ret,                          \* the latest call of the service and what it returned
    registrations,                \* history: id -> number of register_approval_request calls
    hist,                         \* history: id -> what happened since its latest resolution
    \* ---- Part III: request_leave_approval and the callback HTTP handler ----
    callback_service_imported,    \* whether "from approval_callback import callback_service" worked
    tool_pc,                      \* "idle", or "posting": awaiting invoke_logic_app
    payload,                      \* the payload of the latest POST to the Logic App
    tool_result,                  \* what the latest request_leave_approval returned
    requested,                    \* history: id -> the leave dates the tool was called with
    http_response,                \* what do_POST answered to the latest callback
    \* ---- Part IV: AgentSession and the backend it talks to ----
    session,                      \* self.agent, self.agent_id, self.thread_id, self.project_context
    backend,                      \* what the session made the backend create and delete
    sret,                         \* the latest call of the session and what it returned
    \* ---- Part V: the callback thread and the consumer of notifications ----
    callback_thread,              \* where the callback thread is in handle_approval_response
    consumer,                     \* where the chat loop is in check / clear, and its locals
    shown                         \* history: id -> number of check results that held it

turnVars == <<pc, iterations, run_status, thread, all_tool_calls, tool_calls,
              tool_outputs, issued, result>>

approvalVars == <<pending_approvals, approval_responses, notification_queue,
                  global_recent_notifications, now, ret, registrations, hist>>

toolVars == <<callback_service_imported, tool_pc, payload, tool_result, requested,
              http_response>>

sessionVars == <<session, backend, sret>>

threadVars == <<callback_thread, consumer, shown>>

vars == <<turnVars, approvalVars, toolVars, sessionVars, threadVars>>

\* What a step of the run driver, and a step of the approval service, leaves
\* alone.
offTurnVars == <<approvalVars, toolVars, sessionVars, threadVars>>
offApprovalVars == <<turnVars, toolVars, sessionVars, threadVars>>

(***************************************************************************)
(* Bounds of the model.                                                    *)
(***************************************************************************)
\* Poll cap of the while loop.  The source sets max_iterations = 150
\* (enhanced_agent.py line 275); the loop is uniform in the cap, so the model
\* runs it with a small one.
max_iterations == 3
\* The backend asks for at most this many distinct tool calls during one run.
MaxToolCalls == 2

Absent == "<absent>"      \* a key the Python dict does not have
None == "<None>"          \* Python None

(***************************************************************************)
(* Part I.  Backend vocabulary.                                            *)
(***************************************************************************)
NonTerminal == {"queued", "in_progress", "requires_action"}
Statuses == NonTerminal \cup {"completed", "failed", "cancelled"}

LocalTools == {"read_schedule", "create_meeting", "get_current_datetime"}
\* A tool name the driver does not execute itself.
OtherTools == {"login_submitter"}

\* What the backend can ask for: the function name, whether function.arguments
\* parses as JSON, and what the local function does when it is executed.  The
\* three local tools are dispatched by the same code; every one of them can
\* return, and the failing behaviours are drawn for read_schedule.
ToolCallKinds ==
    [name : LocalTools, arguments : {"valid"}, behaviour : {"returns"}]
    \cup [name : {"read_schedule"}, arguments : {"valid"},
          behaviour : {"returns_error", "raises"}]
    \cup [name : {"read_schedule"} \cup OtherTools, arguments : {"invalid"},
          behaviour : {"returns"}]
    \cup [name : OtherTools, arguments : {"valid"}, behaviour : {"returns"}]

\* Content of a thread message: a list of content items, a text value or an
\* item without text (an image).
Image == "<image>"
Contents == { <<>>, <<Image>>, <<"X">>, <<Image, "Y">> }
UserMessage == [role |-> "user", content |-> <<"hello">>]

\* The thread as process_message can find it: new, or holding an earlier turn.
PriorThreads == { <<>>, << [role |-> "assistant", content |-> <<"old">>], UserMessage >> }

(***************************************************************************)
(* Part I.  Tool dispatch: the capture loop of process_message and         *)
(* _handle_tool_calls.                                                     *)
(***************************************************************************)
\* json.dumps of a value: the value tagged as serialised text.
json_dumps(v) == <<"json">> \o v

\* What read_schedule / create_meeting / get_current_datetime hand back when
\* they return: their result, or an error object such as permission_denied.
ToolResult(call) ==
    IF call.behaviour = "returns" THEN <<"result", call.name>>
    ELSE <<"error", "permission_denied">>

\* One entry of all_tool_calls written by the capture loop (lines 310-325).
CapturedInfo(call) ==
    [name |-> call.name, parameters |-> "args", call_id |-> call.id,
     tool_type |-> IF call.name \in LocalTools THEN "function" ELSE "openapi",
     result |-> IF call.name \in LocalTools THEN <<"Executing...">>
                ELSE <<"OpenAPI call to", call.name>>]

\* The capture loop: a call whose arguments do not parse raises inside the
\* try and is not tracked.
RECURSIVE CaptureToolCalls(_, _)
CaptureToolCalls(calls, tracked) ==
    IF calls = <<>> THEN tracked
    ELSE CaptureToolCalls(Tail(calls),
            IF Head(calls).arguments = "valid"
            THEN Append(tracked, CapturedInfo(Head(calls)))
            ELSE tracked)

\* "for tracked_call in all_tool_calls: if call_id matches: update; break":
\* the first entry with that call id gets the result.
RECURSIVE UpdateTracked(_, _, _)
UpdateTracked(tracked, id, res) ==
    IF tracked = <<>> THEN <<>>
    ELSE IF Head(tracked).call_id = id
         THEN <<[Head(tracked) EXCEPT !.result = res]>> \o Tail(tracked)
         ELSE <<Head(tracked)>> \o UpdateTracked(Tail(tracked), id, res)

InvalidArguments == <<"error", "invalid_arguments", "Invalid function arguments">>
ExecutionError(fn) == <<"error", "execution_error", "Error executing", fn>>

\* The entry the two except branches append to all_tool_calls.
ErrorInfo(call, params, error_result) ==
    [name |-> call.name, parameters |-> params, call_id |-> call.id,
     tool_type |-> Absent, result |-> error_result]

ToolOutput(call, value) == [tool_call_id |-> call.id, output |-> json_dumps(value)]

\* The dispatch without its "except Exception" branch: the exception of a
\* local tool leaves the try statement.
HandleOneCall_Propagates(call, acc) ==
    IF call.arguments = "invalid"
    THEN [outputs |-> Append(acc.outputs, ToolOutput(call, InvalidArguments)),
          tracked |-> Append(acc.tracked, ErrorInfo(call, "Invalid JSON", InvalidArguments)),
          raised |-> FALSE]
    ELSE IF call.name \in LocalTools
    THEN IF call.behaviour = "raises"
         THEN [outputs |-> acc.outputs, tracked |-> acc.tracked, raised |-> TRUE]
         ELSE [outputs |-> Append(acc.outputs, ToolOutput(call, ToolResult(call))),
               tracked |-> UpdateTracked(acc.tracked, call.id, ToolResult(call)),
               raised |-> FALSE]
    ELSE [outputs |-> acc.outputs,
          tracked |-> UpdateTracked(acc.tracked, call.id,
                                    <<"Handled by Azure AI (OpenAPI)", call.name>>),
          raised |-> FALSE]

\* A dispatch that puts each new output in front of the earlier ones.
HandleOneCall_Prepends(call, acc) ==
    IF call.arguments = "invalid"
    THEN [outputs |-> <<ToolOutput(call, InvalidArguments)>> \o acc.outputs,
          tracked |-> Append(acc.tracked, ErrorInfo(call, "Invalid JSON", InvalidArguments)),
          raised |-> FALSE]
    ELSE IF call.name \in LocalTools
    THEN IF call.behaviour = "raises"
         THEN [outputs |-> <<ToolOutput(call, ExecutionError(call.name))>> \o acc.outputs,
               tracked |-> Append(acc.tracked,
                                  ErrorInfo(call, "args", ExecutionError(call.name))),
               raised |-> FALSE]
         ELSE [outputs |-> <<ToolOutput(call, ToolResult(call))>> \o acc.outputs,
               tracked |-> UpdateTracked(acc.tracked, call.id, ToolResult(call)),
               raised |-> FALSE]
    ELSE [outputs |-> acc.outputs,
          tracked |-> UpdateTracked(acc.tracked, call.id,
                                    <<"Handled by Azure AI (OpenAPI)", call.name>>),
          raised |-> FALSE]

\* One pass of the for loop of _handle_tool_calls over `call`, from the
\* outputs and tracked calls so far.  `raised` says that an exception left the
\* try statement; both except branches return normally, so none does.
HandleOneCall(call, acc) ==
    IF call.arguments = "invalid"
    THEN \* json.JSONDecodeError branch
         [outputs |-> Append(acc.outputs, ToolOutput(call, InvalidArguments)),
          tracked |-> Append(acc.tracked, ErrorInfo(call, "Invalid JSON", InvalidArguments)),
          raised |-> FALSE]
    ELSE IF call.name \in LocalTools
    THEN IF call.behaviour = "raises"
         THEN \* except Exception branch
              [outputs |-> Append(acc.outputs, ToolOutput(call, ExecutionError(call.name))),
               tracked |-> Append(acc.tracked,
                                  ErrorInfo(call, "args", ExecutionError(call.name))),
               raised |-> FALSE]
         ELSE [outputs |-> Append(acc.outputs, ToolOutput(call, ToolResult(call))),
               tracked |-> UpdateTracked(acc.tracked, call.id, ToolResult(call)),
               raised |-> FALSE]
    ELSE \* not executed locally: no output for this call
         [outputs |-> acc.outputs,
          tracked |-> UpdateTracked(acc.tracked, call.id,
                                    <<"Handled by Azure AI (OpenAPI)", call.name>>),
          raised |-> FALSE]

\* The for loop: an exception that left a pass would end it.
RECURSIVE HandleFrom(_, _)
HandleFrom(calls, acc) ==
    IF calls = <<>> \/ acc.raised THEN acc
    ELSE HandleFrom(Tail(calls), HandleOneCall(Head(calls), acc))

\* _handle_tool_calls(tool_calls, all_tool_calls): the outputs it returns,
\* all_tool_calls as it leaves it, and whether it raised.
_handle_tool_calls(calls, tracked) ==
    HandleFrom(calls, [outputs |-> <<>>, tracked |-> tracked, raised |-> FALSE])

(***************************************************************************)
(* Part I.  process_message.                                               *)
(***************************************************************************)
Result(status, message, rs, calls, details) ==
    [status |-> status, message |-> message, run_status |-> rs,
     tool_calls |-> calls, error_details |-> details]

NoResult == Result(Absent, <<>>, Absent, <<>>, {Absent})

\* The while condition with the cap tested one pass too late.
LoopCondition_OffByOne(status, n) == status \in NonTerminal /\ n <= max_iterations

\* The while condition of the poll loop (line 278).
LoopCondition(status, n) == status \in NonTerminal /\ n < max_iterations

\* The backend has finished the run: it may have written an assistant message.
BackendCompletes(th) ==
    {th} \cup { <<[role |-> "assistant", content |-> c]>> \o th : c \in Contents }

\* A batch the backend can put in run.required_action: the one it showed
\* last, again, or new calls under fresh ids.
NewBatches(n) ==
    { <<>> } \cup
    UNION { { [i \in 1..k |-> [id |-> n + i, name |-> f[i].name,
                               arguments |-> f[i].arguments,
                               behaviour |-> f[i].behaviour]] :
              f \in [1..k -> ToolCallKinds] } : k \in 1..(MaxToolCalls - n) }

Batches(last, n) == (NewBatches(n) \cup {last}) \ { <<>> }

TurnInit ==
    /\ pc = "idle"
    /\ iterations = 0
    /\ run_status = Absent
    /\ thread \in PriorThreads
    /\ all_tool_calls = <<>>
    /\ tool_calls = <<>>
    /\ tool_outputs = <<>>
    /\ issued = 0
    /\ result = NoResult

\* Lines 262-276: the user message is added and the run is created.
StartTurn ==
    /\ UNCHANGED offTurnVars
    /\ pc = "idle"
    /\ \E s \in Statuses :
         /\ run_status' = s
         /\ thread' \in IF s = "completed"
                        THEN BackendCompletes(<<UserMessage>> \o thread)
                        ELSE { <<UserMessage>> \o thread }
    /\ pc' = "poll"
    /\ UNCHANGED <<iterations, all_tool_calls, tool_calls, tool_outputs, issued, result>>

\* Lines 278-340, one pass of the loop body in which the refreshed run is not
\* in requires_action.
PollStatus ==
    /\ UNCHANGED offTurnVars
    /\ pc = "poll"
    /\ LoopCondition(run_status, iterations)
    /\ iterations' = iterations + 1
    /\ \E s \in Statuses \ {"requires_action"} :
         /\ run_status' = s
         /\ thread' \in IF s = "completed" THEN BackendCompletes(thread) ELSE {thread}
    /\ tool_calls' = <<>>
    /\ tool_outputs' = <<>>
    /\ UNCHANGED <<pc, all_tool_calls, issued, result>>

\* str(e) of an exception a backend call raised: the substrings the except
\* branch looks for.
ExceptionTexts ==
    { {"text"}, {"text", "rate limit"}, {"text", "quota"}, {"text", "throttle", "quota"} }

\* Lines 486-508.
ExceptionMessage(e) ==
    IF "rate limit" \in e \/ "too many requests" \in e \/ "throttle" \in e
    THEN <<"Rate limit exceeded. Please wait and try again.">>
    ELSE IF "quota" \in e
    THEN <<"Service quota exceeded. Please check your Azure AI usage.">>
    ELSE <<"An unexpected error occurred while processing your request.">>

\* Lines 278-340, one pass of the loop body in which the refreshed run is in
\* requires_action: the calls are captured, dispatched, and the outputs
\* submitted when there are any.  An exception out of the dispatch would be
\* caught by the except branch of process_message.
PollRequiresAction ==
    /\ UNCHANGED offTurnVars
    /\ pc = "poll"
    /\ LoopCondition(run_status, iterations)
    /\ iterations' = iterations + 1
    /\ run_status' = "requires_action"
    /\ \E batch \in Batches(tool_calls, issued) :
         LET handled == _handle_tool_calls(batch, CaptureToolCalls(batch, all_tool_calls))
         IN  /\ tool_calls' = batch
             /\ issued' = IF batch = tool_calls THEN issued ELSE issued + Len(batch)
             /\ all_tool_calls' = handled.tracked
             /\ tool_outputs' = IF handled.raised THEN <<>> ELSE handled.outputs
             /\ pc' = IF handled.raised THEN "done" ELSE "poll"
             /\ result' = IF handled.raised
                          THEN Result("error", ExceptionMessage({"text"}), Absent, <<>>,
                                      {"text"})
                          ELSE result
    /\ UNCHANGED thread

\* "if iterations >= max_iterations" (line 343).
TimedOut(n) == n >= max_iterations

\* Lines 342-349: the timeout result.
ReturnTimeout ==
    /\ UNCHANGED offTurnVars
    /\ pc = "poll"
    /\ ~LoopCondition(run_status, iterations)
    /\ TimedOut(iterations)
    /\ result' = Result("error",
                        <<"Request timed out after", ToString(iterations * 2),
                          "seconds. Status:", run_status>>,
                        run_status, <<>>, {Absent})
    /\ pc' = "done"
    /\ UNCHANGED <<iterations, run_status, thread, all_tool_calls, tool_calls,
                   tool_outputs, issued>>

\* run.last_error as the driver reads it: None, or a text holding some of the
\* substrings the classification looks for.
ErrorDetails ==
    { {None}, {"text"}, {"text", "rate"}, {"text", "limit"}, {"text", "quota"},
      {"text", "usage"}, {"text", "rate", "quota"}, {"text", "limit", "usage"} }

\* Lines 361-369: the message of a failed run.
FailedMessage(details) ==
    IF details = {None}
    THEN <<"Run failed - possibly due to rate limiting or thread lock">>
    ELSE IF "rate" \in details \/ "limit" \in details THEN <<"Rate limit hit">>
    ELSE IF "quota" \in details \/ "usage" \in details THEN <<"Quota/Usage limit hit">>
    ELSE <<"Run failed">>

\* Lines 351-376.
ReturnFailed ==
    /\ UNCHANGED offTurnVars
    /\ pc = "poll"
    /\ ~LoopCondition(run_status, iterations)
    /\ ~TimedOut(iterations)
    /\ run_status = "failed"
    /\ \E details \in ErrorDetails :
         result' = Result("error", FailedMessage(details), run_status, <<>>, details)
    /\ pc' = "done"
    /\ UNCHANGED <<iterations, run_status, thread, all_tool_calls, tool_calls,
                   tool_outputs, issued>>

\* The first content item of a message that carries text (lines 424-427).
RECURSIVE FirstText(_)
FirstText(content) ==
    IF content = <<>> THEN None
    ELSE IF Head(content) # Image THEN Head(content)
    ELSE FirstText(Tail(content))

IsAssistant(msg) == msg.role = "assistant"

\* Lines 417-427: the text of assistant_messages[0], None when there is no
\* assistant message or it carries no text.
LatestText(th) ==
    LET assistant_messages == SelectSeq(th, IsAssistant)
    IN  IF assistant_messages = <<>> THEN None
        ELSE FirstText(assistant_messages[1].content)

\* Lines 440-457: the two tool calls the heuristic adds.
FlexHRCalls ==
    << [name |-> "login_submitter", parameters |-> "args", call_id |-> -1,
        tool_type |-> "openapi", result |-> <<"Login successful (inferred from response)">>],
       [name |-> "leave_entitlement_summary", parameters |-> "args", call_id |-> -2,
        tool_type |-> "openapi",
        result |-> <<"Leave entitlement data retrieved (inferred from response)">>] >>

\* Lines 378-477.  `heuristic` is "high_token_usage and has_flexhr_content".
ReturnCompleted ==
    /\ UNCHANGED offTurnVars
    /\ pc = "poll"
    /\ ~LoopCondition(run_status, iterations)
    /\ ~TimedOut(iterations)
    /\ run_status = "completed"
    /\ \E heuristic \in BOOLEAN :
         LET latest_text == LatestText(thread)
             calls == IF heuristic /\ Len(all_tool_calls) = 1
                      THEN all_tool_calls \o FlexHRCalls
                      ELSE all_tool_calls
         IN  IF latest_text # None
             THEN /\ all_tool_calls' = calls
                  /\ result' = Result("success", <<latest_text>>, run_status, calls, {Absent})
             ELSE /\ all_tool_calls' = all_tool_calls
                  /\ result' = Result("error", <<"No response generated">>, run_status,
                                      <<>>, {Absent})
    /\ pc' = "done"
    /\ UNCHANGED <<iterations, run_status, thread, tool_calls, tool_outputs, issued>>

\* Lines 478-484: any other status the loop left on.
ReturnOtherStatus ==
    /\ UNCHANGED offTurnVars
    /\ pc = "poll"
    /\ ~LoopCondition(run_status, iterations)
    /\ ~TimedOut(iterations)
    /\ run_status \notin {"failed", "completed"}
    /\ result' = Result("error", <<"Processing failed with status:", run_status>>,
                        run_status, <<>>, {Absent})
    /\ pc' = "done"
    /\ UNCHANGED <<iterations, run_status, thread, all_tool_calls, tool_calls,
                   tool_outputs, issued>>

\* A backend call of process_message raises (messages.create, runs.create,
\* runs.get, submit_tool_outputs, messages.list): the except branch returns.
BackendRaises ==
    /\ UNCHANGED offTurnVars
    /\ pc \in {"idle", "poll"}
    /\ \E e \in ExceptionTexts :
         result' = Result("error", ExceptionMessage(e), Absent, <<>>, e)
    /\ thread' \in IF pc = "idle" THEN {thread, <<UserMessage>> \o thread} ELSE {thread}
    /\ pc' = "done"
    /\ UNCHANGED <<iterations, run_status, all_tool_calls, tool_calls, tool_outputs, issued>>

NextTurn ==
    \/ StartTurn
    \/ PollStatus
    \/ PollRequiresAction
    \/ ReturnTimeout
    \/ ReturnFailed
    \/ ReturnCompleted
    \/ ReturnOtherStatus
    \/ BackendRaises

(***************************************************************************)
(* Part II.  ApprovalCallbackService (src/src/approval_callback.py).       *)
(***************************************************************************)
\* self.notification_timeout (line 38).
notification_timeout == 300
\* register_approval_request is called at most this many times in all.
MaxRegistrations == 2

Ids == {"A", "B"}
RequestTypes == {"leave_request", "meeting_request"}
NoTime == 0 - 1           \* completed_at of a record that has none

\* The body of a callback: status, selectedOption and message as the handler
\* passes them on (lines 342-344); None is a field the body does not carry.
Decisions ==
    { [status |-> "APPROVED", selected_option |-> "Approve", message |-> "Enjoy!"],
      [status |-> "REJECTED", selected_option |-> "Reject", message |-> "Sorry"],
      [status |-> None, selected_option |-> None, message |-> ""] }

\* Other status strings a callback body can carry: nothing in do_POST or in
\* handle_approval_response restricts the value (lines 342-348).
OtherStatuses == {"Approved", "CANCELLED"}

AnyDecisions ==
    Decisions \cup
    { [status |-> st, selected_option |-> "Approve", message |-> "Enjoy!"] :
        st \in OtherStatuses }

\* str.lower() on the status strings of AnyDecisions.
Lower(status) ==
    CASE status = "APPROVED" -> "approved"
      [] status = "REJECTED" -> "rejected"
      [] status = "Approved" -> "approved"
      [] status = "CANCELLED" -> "cancelled"
      [] OTHER -> status

callback_base_url == "http://localhost:5000"

\* The record register_approval_request stores (lines 57-62).
PendingRecord(id, details, t) ==
    [request_details |-> details, status |-> "pending", created_at |-> t,
     callback_url |-> <<callback_base_url, "/api/approval/callback/", id>>,
     selected_option |-> Absent, logic_app_message |-> Absent, completed_at |-> NoTime]

\* approval_data.update({...}) (lines 95-100).
CompletedRecord(rec, decision, t) ==
    [rec EXCEPT !.status = Lower(decision.status),
                !.selected_option = decision.selected_option,
                !.logic_app_message = decision.message,
                !.completed_at = t]

\* notification_message of the two handlers (lines 133-145, 174-186) and
\* notification_with_time (lines 151-154, 192-195).
Notification(id, status, data) ==
    [type |-> "approval_update", approval_id |-> id, status |-> status, details |-> data]

WithTimestamp(n, t) ==
    [type |-> n.type, approval_id |-> n.approval_id, status |-> n.status,
     details |-> n.details, timestamp |-> t]

\* clean_notif: the notification without its timestamp (line 251).
CleanNotif(w) ==
    [type |-> w.type, approval_id |-> w.approval_id, status |-> w.status,
     details |-> w.details]

\* Which notification handle_approval_response emits (lines 109-112 with
\* _handle_approved_request and _handle_rejected_request): <<>> when none.
EmittedNotifications(id, status, data) ==
    IF status = "APPROVED"
    THEN IF data.request_details.type = "leave_request"
         THEN <<Notification(id, "APPROVED", data)>>
         ELSE <<>>
    ELSE <<Notification(id, "REJECTED", data)>>

Stamp(ns, t) == [k \in 1..Len(ns) |-> WithTimestamp(ns[k], t)]

\* A deletion that empties the map.
Without_Clears(map, id) == [k \in {} |-> map[k]]

\* A map without one key (del d[k]) and with one key set (d[k] = v).
Without(map, id) == [k \in (DOMAIN map) \ {id} |-> map[k]]
With(map, id, v) == [k \in (DOMAIN map) \cup {id} |-> IF k = id THEN v ELSE map[k]]

Ret(op, id, status) ==
    [op |-> op, id |-> id, status |-> status, has_notifications |-> FALSE,
     notifications |-> <<>>, count |-> 0]

\* The readings of time.time(): the start, half a timeout and a whole timeout
\* later.
Times == {0, notification_timeout \div 2, notification_timeout}

\* History of an id: the status strings of the decisions accepted for it, and
\* what the consumer did since the latest one: nothing ("unread"), at least
\* one check_notifications ("read"), a clear_shown_notifications ("cleared").
NoHistory == [statuses |-> <<>>, view |-> "unread"]

ApprovalInit ==
    /\ pending_approvals = << >>
    /\ approval_responses = << >>
    /\ notification_queue = <<>>
    /\ global_recent_notifications = <<>>
    /\ now = 0
    /\ ret = Ret("none", "", Absent)
    /\ registrations = [a \in Ids |-> 0]
    /\ hist = [a \in Ids |-> NoHistory]

\* The number of register_approval_request calls so far.
RECURSIVE Sum(_, _)
Sum(f, S) == IF S = {} THEN 0
             ELSE LET x == CHOOSE y \in S : TRUE IN f[x] + Sum(f, S \ {x})

\* register_approval_request (lines 40-65).
register_approval_request(approval_id, request_details) ==
    /\ Sum(registrations, Ids) < MaxRegistrations
    /\ pending_approvals' = With(pending_approvals, approval_id,
                                 PendingRecord(approval_id, request_details, now))
    /\ ret' = Ret("register_approval_request", approval_id, "returned")
    /\ registrations' = [registrations EXCEPT ![approval_id] = @ + 1]
    /\ UNCHANGED <<approval_responses, notification_queue, global_recent_notifications,
                   now, hist>>

\* "if approval_id not in self.pending_approvals" (line 87).
NotFound(approval_id) == approval_id \notin DOMAIN pending_approvals

\* Lines 93-118: the record is completed, moved to approval_responses, and
\* the notification (if any) is put in the queue and in the list.
Resolve(approval_id, record, decision) ==
    LET approval_data == CompletedRecord(record, decision, now)
        emitted == EmittedNotifications(approval_id, decision.status, approval_data)
    IN  /\ approval_responses' = With(approval_responses, approval_id, approval_data)
        /\ pending_approvals' = Without(pending_approvals, approval_id)
        /\ notification_queue' = notification_queue \o emitted
        /\ global_recent_notifications' = global_recent_notifications \o Stamp(emitted, now)
        /\ ret' = Ret("handle_approval_response", approval_id, "success")
        /\ hist' = [hist EXCEPT ![approval_id] =
                       [statuses |-> Append(@.statuses, decision.status),
                        view |-> "unread"]]
        /\ UNCHANGED <<now, registrations>>

\* The error return of lines 88-91 and of the except branch.
Refuse(approval_id) ==
    /\ ret' = Ret("handle_approval_response", approval_id, "error")
    /\ UNCHANGED <<pending_approvals, approval_responses, notification_queue,
                   global_recent_notifications, now, registrations, hist>>

\* A handler that creates the record of an id it does not know.
handle_approval_response_Upsert(approval_id, decision) ==
    IF decision.status = None
    THEN Refuse(approval_id)
    ELSE Resolve(approval_id,
                 IF NotFound(approval_id)
                 THEN PendingRecord(approval_id, [type |-> "leave_request"], now)
                 ELSE pending_approvals[approval_id],
                 decision)

\* A handler that accepts a decision for an id it has already resolved and
\* overwrites the stored record.
handle_approval_response_Overwrites(approval_id, decision) ==
    IF decision.status = None
       \/ (NotFound(approval_id) /\ approval_id \notin DOMAIN approval_responses)
    THEN Refuse(approval_id)
    ELSE Resolve(approval_id,
                 IF NotFound(approval_id)
                 THEN approval_responses[approval_id]
                 ELSE pending_approvals[approval_id],
                 decision)

\* A handler that takes a body without a status for a decision.
handle_approval_response_NoStatusCheck(approval_id, decision) ==
    IF NotFound(approval_id)
    THEN Refuse(approval_id)
    ELSE Resolve(approval_id, pending_approvals[approval_id], decision)

\* handle_approval_response (lines 67-125).  status.lower() on None raises
\* before the record is touched; the except branch returns an error.
handle_approval_response(approval_id, decision) ==
    IF NotFound(approval_id) \/ decision.status = None
    THEN Refuse(approval_id)
    ELSE Resolve(approval_id, pending_approvals[approval_id], decision)

\* A window test that keeps a notification that is exactly one timeout old.
Fresh_Inclusive(w) == now - w.timestamp <= notification_timeout

\* The list comprehension of lines 243-246.
Fresh(w) == now - w.timestamp < notification_timeout

InSeq(x, seq) == \E k \in 1..Len(seq) : seq[k] = x

\* The loop of lines 249-253 without its "not in notifications" test.
AddRecent_NoDedupe(notifications, recent) ==
    notifications \o [k \in 1..Len(recent) |-> CleanNotif(recent[k])]

\* Lines 249-253: the windowed notifications not yet in the list are appended.
RECURSIVE AddRecent(_, _)
AddRecent(notifications, recent) ==
    IF recent = <<>> THEN notifications
    ELSE AddRecent(IF InSeq(CleanNotif(Head(recent)), notifications)
                   THEN notifications
                   ELSE Append(notifications, CleanNotif(Head(recent))),
                   Tail(recent))

\* check_notifications (lines 227-268).
check_notifications ==
    LET recent == SelectSeq(global_recent_notifications, Fresh)
        notifications == AddRecent(notification_queue, recent)
    IN  /\ notification_queue' = <<>>
        /\ global_recent_notifications' = recent
        /\ ret' = IF notifications # <<>>
                  THEN [op |-> "check_notifications", id |-> "", status |-> "success",
                        has_notifications |-> TRUE, notifications |-> notifications,
                        count |-> Len(notifications)]
                  ELSE [op |-> "check_notifications", id |-> "", status |-> "success",
                        has_notifications |-> FALSE, notifications |-> <<>>, count |-> 0]
        /\ hist' = [a \in Ids |-> IF hist[a].statuses # <<>> /\ hist[a].view = "unread"
                                  THEN [hist[a] EXCEPT !.view = "read"]
                                  ELSE hist[a]]
        /\ UNCHANGED <<pending_approvals, approval_responses, now, registrations>>

\* What clear_shown_notifications leaves in the list and in the queue
\* (lines 273-280).
ClearedList(recent) == <<>>
\* A status lookup that only knows the pending requests.
get_approval_status_PendingOnly(approval_id) ==
    IF approval_id \in DOMAIN pending_approvals
    THEN [status |-> "success", approval_status |-> "pending",
          data |-> pending_approvals[approval_id]]
    ELSE [status |-> "error", approval_status |-> Absent,
          data |-> PendingRecord(approval_id, [type |-> Absent], NoTime)]

\* get_approval_status (lines 204-225): pending first, then completed.  It
\* reads the two maps and changes nothing; the data of the error result is
\* a placeholder for the key the dict does not have.
get_approval_status(approval_id) ==
    IF approval_id \in DOMAIN pending_approvals
    THEN [status |-> "success", approval_status |-> "pending",
          data |-> pending_approvals[approval_id]]
    ELSE IF approval_id \in DOMAIN approval_responses
    THEN [status |-> "success", approval_status |-> "completed",
          data |-> approval_responses[approval_id]]
    ELSE [status |-> "error", approval_status |-> Absent,
          data |-> PendingRecord(approval_id, [type |-> Absent], NoTime)]

\* A clear that leaves the queue alone.
ClearedQueue_Keeps(q) == q
ClearedQueue(q) == <<>>

\* clear_shown_notifications (lines 270-280).
clear_shown_notifications ==
    /\ global_recent_notifications' = ClearedList(global_recent_notifications)
    /\ notification_queue' = ClearedQueue(notification_queue)
    /\ ret' = Ret("clear_shown_notifications", "", "returned")
    /\ hist' = [a \in Ids |-> IF hist[a].statuses = <<>> THEN hist[a]
                              ELSE [hist[a] EXCEPT !.view = "cleared"]]
    /\ UNCHANGED <<pending_approvals, approval_responses, now, registrations>>

\* Time passes between two calls.
Tick ==
    /\ \E t \in Times : t > now /\ now' = t
    /\ UNCHANGED <<pending_approvals, approval_responses, notification_queue,
                   global_recent_notifications, ret, registrations, hist>>

Register ==
    /\ UNCHANGED offApprovalVars
    /\ \E id \in Ids, t \in RequestTypes : register_approval_request(id, [type |-> t])

HandleResponse ==
    /\ UNCHANGED offApprovalVars
    /\ \E id \in Ids, d \in Decisions : handle_approval_response(id, d)

\* A callback that carries any status string.
HandleAnyResponse ==
    /\ UNCHANGED offApprovalVars
    /\ \E id \in Ids, d \in AnyDecisions : handle_approval_response(id, d)

CheckNotifications == UNCHANGED offApprovalVars /\ check_notifications

ClearShown == UNCHANGED offApprovalVars /\ clear_shown_notifications

Clock == UNCHANGED offApprovalVars /\ Tick

NextApproval ==
    \/ Register
    \/ HandleResponse
    \/ CheckNotifications
    \/ ClearShown
    \/ Clock

\* The service when the callbacks carry any status string.
NextCallback ==
    \/ Register
    \/ HandleAnyResponse
    \/ CheckNotifications
    \/ ClearShown
    \/ Clock

(***************************************************************************)
(* Part III.  request_leave_approval (src/src/tools/logic_app_tool.py) and *)
(* CallbackHandler.do_POST (src/src/approval_callback.py).                 *)
(***************************************************************************)
\* leave_start_date and leave_end_date of an invocation.
LeaveDates == { <<"2025-11-20", "2025-11-22">> }

\* The callback_url argument: None (the default), or a URL of the caller.
NoUrl == <<>>
CallerUrls == { NoUrl, <<"https://caller.example/hook">> }

\* A payload without the callbackUrl key.
AbsentUrl == <<Absent>>
NoPayload == [to |-> Absent, subject |-> <<>>, callbackUrl |-> AbsentUrl]
NoResponse == [code |-> "none", result |-> Absent]

\* request_details with the dates swapped for the start date.
RequestDetails_EndIsStart(dates) ==
    [type |-> "leave_request", leave_start_date |-> dates[1], leave_end_date |-> dates[1]]

\* request_details (lines 193-201); the employee, reason and manager fields
\* are carried along unchanged and left out.
RequestDetails(dates) ==
    [type |-> "leave_request", leave_start_date |-> dates[1], leave_end_date |-> dates[2]]

\* The tool is not running; nothing was posted or answered yet.
ToolIdle ==
    /\ tool_pc = "idle"
    /\ payload = NoPayload
    /\ tool_result = "none"
    /\ requested = [a \in Ids |-> <<>>]
    /\ http_response = NoResponse

ToolInit == ToolIdle /\ callback_service_imported = TRUE

\* "if not callback_url and callback_service" (line 192).
Registers(callback_url) == callback_url = NoUrl /\ callback_service_imported

\* A tool that registers whatever callback_url the caller passed.
PayloadUrl_Own(approval_id, callback_url) ==
    <<callback_base_url, "/api/approval/callback/", approval_id>>

\* The callback_url after line 202: the one register_approval_request
\* returned (line 55, the URL it also stores), or the caller's.
PayloadUrl(approval_id, callback_url) ==
    IF Registers(callback_url)
    THEN <<callback_base_url, "/api/approval/callback/", approval_id>>
    ELSE callback_url

\* request_leave_approval up to its await (lines 168-241): the id is minted
\* (uuid4: an id never used before), the request is registered, the payload
\* is built and handed to invoke_logic_app.
RequestLeaveApproval ==
    \E dates \in LeaveDates, callback_url \in CallerUrls, approval_id \in Ids :
        /\ tool_pc = "idle"
        /\ registrations[approval_id] = 0
        /\ IF Registers(callback_url)
           THEN /\ register_approval_request(approval_id, RequestDetails(dates))
                /\ requested' = [requested EXCEPT ![approval_id] = dates]
           ELSE UNCHANGED <<approvalVars, requested>>
        /\ payload' =
              [to |-> "manager",
               subject |-> <<"Leave Request Approval:", dates[1], "to", dates[2]>>,
               callbackUrl |-> IF PayloadUrl(approval_id, callback_url) # NoUrl
                               THEN PayloadUrl(approval_id, callback_url)
                               ELSE AbsentUrl]
        /\ tool_pc' = "posting"
        /\ UNCHANGED <<callback_service_imported, tool_result, http_response>>
        /\ UNCHANGED <<turnVars, sessionVars, threadVars>>

\* invoke_logic_app returns (lines 39-67) and request_leave_approval with it.
LogicAppOutcomes == {"202", "500", "raises"}

\* A tool that withdraws the registration when the Logic App call failed.
LogicAppAnswers_RollsBack ==
    \E outcome \in LogicAppOutcomes :
        /\ tool_pc = "posting"
        /\ tool_pc' = "idle"
        /\ tool_result' = IF outcome = "202" THEN "success" ELSE "error"
        /\ pending_approvals' =
              IF outcome # "202" /\ Len(payload.callbackUrl) = 3
              THEN Without(pending_approvals, payload.callbackUrl[3])
              ELSE pending_approvals
        /\ UNCHANGED <<approval_responses, notification_queue,
                       global_recent_notifications, now, ret, registrations, hist>>
        /\ UNCHANGED <<callback_service_imported, payload, requested, http_response>>
        /\ UNCHANGED <<turnVars, sessionVars, threadVars>>

LogicAppAnswers ==
    \E outcome \in LogicAppOutcomes :
        /\ tool_pc = "posting"
        /\ tool_pc' = "idle"
        /\ tool_result' = IF outcome = "202" THEN "success" ELSE "error"
        /\ UNCHANGED <<callback_service_imported, payload, requested, http_response>>
        /\ UNCHANGED <<turnVars, approvalVars, sessionVars, threadVars>>

\* The path of a callback, split at "/" (line 328), and its body.
Paths ==
    { <<"api", "approval", "callback", a>> : a \in Ids }
    \cup { <<"api", "approval", "callback", "A", "extra">>,
           <<"api", "approval", "status", "A">>,
           <<"api", "approval", "callback">> }

NoDecision == [status |-> None, selected_option |-> None, message |-> ""]

Bodies ==
    { [kind |-> "object", decision |-> d] : d \in Decisions }
    \cup { [kind |-> "invalid", decision |-> NoDecision],
           [kind |-> "array", decision |-> NoDecision] }

\* The test of line 330.
ValidPath(path) ==
    /\ Len(path) >= 4
    /\ path[1] = "api" /\ path[2] = "approval" /\ path[3] = "callback"

\* do_POST (lines 324-370): 404 for another path, 400 for a body that is not
\* JSON, 500 for JSON that is not an object (payload.get raises), and else
\* the result of handle_approval_response with status 200.
do_POST(path, body) ==
    IF ValidPath(path) /\ body.kind = "object"
    THEN /\ handle_approval_response(path[4], body.decision)
         /\ http_response' = [code |-> "200", result |-> ret'.status]
    ELSE /\ UNCHANGED approvalVars
         /\ http_response' =
               [code |-> IF ~ValidPath(path) THEN "404"
                         ELSE IF body.kind = "invalid" THEN "400" ELSE "500",
                result |-> Absent]

DoPost ==
    /\ \E path \in Paths, body \in Bodies : do_POST(path, body)
    /\ UNCHANGED <<callback_service_imported, tool_pc, payload, tool_result, requested>>
    /\ UNCHANGED <<turnVars, sessionVars, threadVars>>

NextLeave ==
    \/ RequestLeaveApproval
    \/ LogicAppAnswers
    \/ DoPost
    \/ CheckNotifications
    \/ ClearShown
    \/ Clock

(***************************************************************************)
(* Part IV.  AgentSession (src/src/agent_session.py).                      *)
(***************************************************************************)
\* None as the value of agent, agent_id and thread_id; handles and ids are
\* numbered from 1.
NoHandle == 0

\* __init__ (lines 76-80).
NewSession ==
    [agent |-> NoHandle, agent_id |-> NoHandle, thread_id |-> NoHandle,
     project_context |-> None]

\* The backend before the session did anything: how many CalendarAgent
\* objects, backend agents and threads were made, and which agents live.
NewBackend == [objects |-> 0, agents |-> 0, threads |-> 0, live |-> {}, deleted |-> 0]

NoCall == [op |-> "none", status |-> Absent, thread_id |-> NoHandle, returned |-> Absent,
           healthy |-> TRUE, message |-> Absent]

SessionInit ==
    /\ session = NewSession
    /\ backend = NewBackend
    /\ sret = NoCall

\* Which backend call of this session call raises, if any: the CalendarAgent
\* constructor, project.__enter__, create_agent or create_conversation_thread.
Failures == {"none", "construct", "enter", "create_agent", "create_thread"}

\* The status of the dict CalendarAgent.process_message returns; it returns
\* one on every path (Part I).
DriverStatuses == {"success", "error"}

\* The session calls are followed while the backend made fewer than this many
\* CalendarAgent objects and fewer than this many threads.
MaxCreations == 2

\* initialize (lines 81-105) on session s and backend b.  It returns True
\* after the four steps, False from the except branch, and None (it falls off
\* the end of the function) when self.agent is already set.
initialize(s, b, fail) ==
    IF s.agent # NoHandle
    THEN [s |-> s, b |-> b, returned |-> "None"]
    ELSE IF fail = "construct"
    THEN [s |-> s, b |-> b, returned |-> "False"]
    ELSE LET s1 == [s EXCEPT !.agent = b.objects + 1, !.project_context = "project"]
             b1 == [b EXCEPT !.objects = @ + 1]
             s2 == [s1 EXCEPT !.agent_id = b.agents + 1]
             b2 == [b1 EXCEPT !.agents = @ + 1, !.live = @ \cup {b.agents + 1}]
             s3 == [s2 EXCEPT !.thread_id = b.threads + 1]
             b3 == [b2 EXCEPT !.threads = @ + 1]
         IN  IF fail \in {"enter", "create_agent"}
             THEN [s |-> s1, b |-> b1, returned |-> "False"]
             ELSE IF fail = "create_thread"
             THEN [s |-> s2, b |-> b2, returned |-> "False"]
             ELSE [s |-> s3, b |-> b3, returned |-> "True"]

\* cleanup (lines 178-199): the agent is deleted (delete_agent reports a
\* failure, such as an agent the backend no longer has, by its return value,
\* which is ignored), the project context is
\* left, the four fields are cleared; if __exit__ raises, the except branch
\* is taken and the fields stay.
cleanup(s, b, delete_ok, exit_raises) ==
    LET b1 == IF s.agent # NoHandle /\ s.agent_id \in b.live /\ delete_ok
              THEN [b EXCEPT !.live = @ \ {s.agent_id}, !.deleted = @ + 1]
              ELSE b
    IN  IF s.project_context # None /\ exit_raises
        THEN [s |-> s, b |-> b1]
        ELSE [s |-> NewSession, b |-> b1]

\* An except branch that lets the exception go.
ExceptResult_Reraise(message, thread_id) ==
    [status |-> "raised", message |-> message, thread_id |-> thread_id]

\* The dict the except branches return (lines 135-141, 170-176).
ExceptResult(message, thread_id) ==
    [status |-> "error", message |-> message, thread_id |-> thread_id]

\* A process_message that drops the agent and the thread of the session
\* when the message could not be processed.
process_message_ResetsOnError(s, b, message, fail, driver) ==
    LET needs == s.agent = NoHandle \/ s.thread_id = NoHandle
        r == IF needs THEN initialize(s, b, fail) ELSE [s |-> s, b |-> b, returned |-> "True"]
        failed == message = None \/ driver = "error"
    IN  [s |-> IF failed /\ ~(needs /\ r.returned # "True") THEN NewSession ELSE r.s,
         b |-> r.b,
         result |->
            IF needs /\ r.returned # "True"
            THEN [status |-> "error", message |-> "Failed to initialize agent session",
                  thread_id |-> NoHandle]
            ELSE IF message = None
            THEN ExceptResult("Error processing message", r.s.thread_id)
            ELSE [status |-> driver, message |-> "response", thread_id |-> r.s.thread_id]]

\* process_message (lines 107-141).  message[:30] raises for a message that
\* is None.
process_message(s, b, message, fail, driver) ==
    LET needs == s.agent = NoHandle \/ s.thread_id = NoHandle
        r == IF needs THEN initialize(s, b, fail) ELSE [s |-> s, b |-> b, returned |-> "True"]
    IN  [s |-> r.s, b |-> r.b,
         result |->
            IF needs /\ r.returned # "True"
            THEN [status |-> "error", message |-> "Failed to initialize agent session",
                  thread_id |-> NoHandle]
            ELSE IF message = None
            THEN ExceptResult("Error processing message", r.s.thread_id)
            ELSE [status |-> driver, message |-> "response", thread_id |-> r.s.thread_id]]

\* A reset that always tears down and initializes again.
reset_session_Reinit(s, b, fail, delete_ok, exit_raises) ==
    LET c == cleanup(s, b, delete_ok, exit_raises)
        r == initialize(c.s, c.b, fail)
    IN  [s |-> r.s, b |-> r.b,
         result |-> [status |-> IF r.returned = "True" THEN "success" ELSE "error",
                     message |-> "reinitialized", thread_id |-> r.s.thread_id]]

\* reset_session (lines 143-176).
reset_session(s, b, fail, delete_ok, exit_raises) ==
    IF s.agent # NoHandle /\ s.agent_id # NoHandle
    THEN IF fail = "create_thread"
         THEN [s |-> s, b |-> b,
               result |-> ExceptResult("Error resetting session", NoHandle)]
         ELSE [s |-> [s EXCEPT !.thread_id = b.threads + 1],
               b |-> [b EXCEPT !.threads = @ + 1],
               result |-> [status |-> "success",
                           message |-> "Session reset - new conversation started",
                           thread_id |-> b.threads + 1]]
    ELSE LET c == cleanup(s, b, delete_ok, exit_raises)
             r == initialize(c.s, c.b, fail)
         IN  [s |-> r.s, b |-> r.b,
              result |->
                 IF r.returned = "True"
                 THEN [status |-> "success",
                       message |-> "Session reset - new agent and conversation started",
                       thread_id |-> r.s.thread_id]
                 ELSE [status |-> "error", message |-> "Failed to reset session",
                       thread_id |-> NoHandle]]

\* What a session call leaves alone, and when one is followed.
SessionFrame ==
    /\ backend.objects < MaxCreations
    /\ backend.threads < MaxCreations
    /\ UNCHANGED <<turnVars, approvalVars, toolVars, threadVars>>

Called(op, res, fail, message) ==
    [op |-> op, status |-> res.status, thread_id |-> res.thread_id, returned |-> Absent,
     healthy |-> fail = "none", message |-> message]

SessionInitialize ==
    /\ SessionFrame
    /\ \E fail \in Failures :
          LET r == initialize(session, backend, fail)
          IN  /\ session' = r.s
              /\ backend' = r.b
              /\ sret' = [op |-> "initialize", status |-> Absent,
                          thread_id |-> r.s.thread_id, returned |-> r.returned,
                          healthy |-> fail = "none", message |-> Absent]

SessionProcessMessage ==
    /\ SessionFrame
    /\ \E message \in {"text", None}, fail \in Failures, driver \in DriverStatuses :
          LET r == process_message(session, backend, message, fail, driver)
          IN  /\ session' = r.s
              /\ backend' = r.b
              /\ sret' = Called("process_message", r.result, fail, message)

SessionReset ==
    /\ SessionFrame
    /\ \E fail \in Failures, delete_ok \in BOOLEAN, exit_raises \in BOOLEAN :
          LET r == reset_session(session, backend, fail, delete_ok, exit_raises)
          IN  /\ session' = r.s
              /\ backend' = r.b
              /\ sret' = Called("reset_session", r.result, fail, Absent)

SessionCleanup ==
    /\ SessionFrame
    /\ \E delete_ok \in BOOLEAN, exit_raises \in BOOLEAN :
          LET c == cleanup(session, backend, delete_ok, exit_raises)
          IN  /\ session' = c.s
              /\ backend' = c.b
              /\ sret' = [op |-> "cleanup", status |-> "success", thread_id |-> NoHandle,
                          returned |-> Absent, healthy |-> ~exit_raises,
                          message |-> Absent]

NextSession ==
    \/ SessionInitialize
    \/ SessionProcessMessage
    \/ SessionReset
    \/ SessionCleanup

\* The run driver called directly (as the chat loop does), or the session.
DriverTurn == sret = NoCall /\ NextTurn
SessionCall == pc = "idle" /\ NextSession
NextCore == DriverTurn \/ SessionCall

(***************************************************************************)
(* Part V.  The two threads of the chat program: the callback server       *)
(* thread runs handle_approval_response (start_callback_server_background, *)
(* approval_callback.py lines 386-399; HTTPServer serves one request at a  *)
(* time), the main thread runs the chat loop, which calls                  *)
(* check_notifications and, when it returned something,                    *)
(* clear_shown_notifications (interactive_chat.py lines 172-199, 212-239). *)
(* The threads share the two maps, the queue and the windowed list without *)
(* a lock; a step of a thread is one statement on the shared state.        *)
(***************************************************************************)
CallbackIdle == [pc |-> "idle", approval_id |-> "", emitting |-> <<>>]

ConsumerIdle == [pc |-> "idle", current_time |-> 0, notifications |-> <<>>,
                 filtered |-> <<>>]

ThreadInit ==
    /\ callback_thread = CallbackIdle
    /\ consumer = ConsumerIdle
    /\ shown = [a \in Ids |-> 0]

\* The main thread registers a request under a new id (request_leave_approval
\* runs inside process_message, between two rounds of the chat loop).
ThreadRegister ==
    /\ consumer.pc = "idle"
    /\ \E id \in Ids, t \in RequestTypes :
          /\ registrations[id] = 0
          /\ register_approval_request(id, [type |-> t])
    /\ UNCHANGED threadVars
    /\ UNCHANGED <<turnVars, toolVars, sessionVars>>

\* handle_approval_response up to the call of queue.put (lines 86-112 and
\* 127-146, 170-186): the record is completed and moved, the notification
\* message is built.
CallbackReceive ==
    /\ callback_thread.pc = "idle"
    /\ \E approval_id \in Ids, decision \in Decisions :
          IF NotFound(approval_id) \/ decision.status = None
          THEN Refuse(approval_id) /\ UNCHANGED callback_thread
          ELSE LET approval_data ==
                       CompletedRecord(pending_approvals[approval_id], decision, now)
                   emitted == EmittedNotifications(approval_id, decision.status,
                                                   approval_data)
               IN  /\ approval_responses' = With(approval_responses, approval_id,
                                                 approval_data)
                   /\ pending_approvals' = Without(pending_approvals, approval_id)
                   /\ hist' = [hist EXCEPT ![approval_id] =
                                  [statuses |-> Append(@.statuses, decision.status),
                                   view |-> "unread"]]
                   /\ IF emitted = <<>>
                      THEN /\ ret' = Ret("handle_approval_response", approval_id, "success")
                           /\ UNCHANGED callback_thread
                      ELSE /\ callback_thread' = [pc |-> "put", approval_id |-> approval_id,
                                                  emitting |-> emitted]
                           /\ UNCHANGED ret
                   /\ UNCHANGED <<notification_queue, global_recent_notifications, now,
                                  registrations>>
    /\ UNCHANGED <<consumer, shown>>
    /\ UNCHANGED <<turnVars, toolVars, sessionVars>>

\* notification_queue.put(notification_message) (lines 148, 189).
CallbackPut ==
    /\ callback_thread.pc = "put"
    /\ notification_queue' = notification_queue \o callback_thread.emitting
    /\ callback_thread' = [callback_thread EXCEPT !.pc = "append"]
    /\ UNCHANGED <<pending_approvals, approval_responses, global_recent_notifications,
                   now, ret, registrations, hist>>
    /\ UNCHANGED <<consumer, shown>>
    /\ UNCHANGED <<turnVars, toolVars, sessionVars>>

\* global_recent_notifications.append(notification_with_time) (lines 151-156,
\* 192-197), and the return of handle_approval_response.
CallbackAppend ==
    /\ callback_thread.pc = "append"
    /\ global_recent_notifications' =
          global_recent_notifications \o Stamp(callback_thread.emitting, now)
    /\ ret' = Ret("handle_approval_response", callback_thread.approval_id, "success")
    /\ callback_thread' = CallbackIdle
    /\ UNCHANGED <<pending_approvals, approval_responses, notification_queue, now,
                   registrations, hist>>
    /\ UNCHANGED <<consumer, shown>>
    /\ UNCHANGED <<turnVars, toolVars, sessionVars>>

\* check_notifications, lines 229-238: current_time is read and the queue is
\* drained into the local list.
ConsumerDrain ==
    /\ consumer.pc = "idle"
    /\ consumer' = [pc |-> "drained", current_time |-> now,
                    notifications |-> notification_queue, filtered |-> <<>>]
    /\ notification_queue' = <<>>
    /\ UNCHANGED <<pending_approvals, approval_responses, global_recent_notifications,
                   now, ret, registrations, hist>>
    /\ UNCHANGED <<callback_thread, shown>>
    /\ UNCHANGED <<turnVars, toolVars, sessionVars>>

\* The window test of line 245 with the time read at line 230.
FreshAt(w, current_time) == current_time - w.timestamp < notification_timeout

\* The list comprehension of lines 243-246 is evaluated.
ConsumerFilter ==
    /\ consumer.pc = "drained"
    /\ consumer' =
          [consumer EXCEPT
              !.pc = "filtered",
              !.filtered = SelectSeq(global_recent_notifications,
                                     LAMBDA w : FreshAt(w, consumer.current_time))]
    /\ UNCHANGED approvalVars
    /\ UNCHANGED <<callback_thread, shown>>
    /\ UNCHANGED <<turnVars, toolVars, sessionVars>>

\* The slice assignment of line 243: the list gets the filtered content.
ConsumerPrune ==
    /\ consumer.pc = "filtered"
    /\ global_recent_notifications' = consumer.filtered
    /\ consumer' = [consumer EXCEPT !.pc = "pruned", !.filtered = <<>>]
    /\ UNCHANGED <<pending_approvals, approval_responses, notification_queue, now, ret,
                   registrations, hist>>
    /\ UNCHANGED <<callback_thread, shown>>
    /\ UNCHANGED <<turnVars, toolVars, sessionVars>>

\* Lines 249-268: the windowed notifications are merged in and the result is
\* returned; the chat loop shows it, and goes on to clear when it is not
\* empty (interactive_chat.py lines 173-199).
ConsumerReturn ==
    /\ consumer.pc = "pruned"
    /\ LET notifications == AddRecent(consumer.notifications, global_recent_notifications)
       IN  /\ ret' = [op |-> "check_notifications", id |-> "", status |-> "success",
                      has_notifications |-> notifications # <<>>,
                      notifications |-> notifications, count |-> Len(notifications)]
           /\ shown' = [a \in Ids |->
                          IF \E k \in 1..Len(notifications) : notifications[k].approval_id = a
                          THEN shown[a] + 1 ELSE shown[a]]
           /\ consumer' = [ConsumerIdle EXCEPT
                              !.pc = IF notifications # <<>> THEN "shown" ELSE "idle"]
    /\ hist' = [a \in Ids |-> IF hist[a].statuses # <<>> /\ hist[a].view = "unread"
                              THEN [hist[a] EXCEPT !.view = "read"]
                              ELSE hist[a]]
    /\ UNCHANGED <<pending_approvals, approval_responses, notification_queue,
                   global_recent_notifications, now, registrations>>
    /\ UNCHANGED callback_thread
    /\ UNCHANGED <<turnVars, toolVars, sessionVars>>

\* clear_shown_notifications, line 273.
ConsumerClearList ==
    /\ consumer.pc = "shown"
    /\ global_recent_notifications' = ClearedList(global_recent_notifications)
    /\ consumer' = [consumer EXCEPT !.pc = "clearing"]
    /\ UNCHANGED <<pending_approvals, approval_responses, notification_queue, now, ret,
                   registrations, hist>>
    /\ UNCHANGED <<callback_thread, shown>>
    /\ UNCHANGED <<turnVars, toolVars, sessionVars>>

\* clear_shown_notifications, lines 276-280, and its return.
ConsumerClearQueue ==
    /\ consumer.pc = "clearing"
    /\ notification_queue' = ClearedQueue(notification_queue)
    /\ ret' = Ret("clear_shown_notifications", "", "returned")
    /\ hist' = [a \in Ids |-> IF hist[a].statuses = <<>> THEN hist[a]
                              ELSE [hist[a] EXCEPT !.view = "cleared"]]
    /\ consumer' = ConsumerIdle
    /\ UNCHANGED <<pending_approvals, approval_responses, global_recent_notifications,
                   now, registrations>>
    /\ UNCHANGED <<callback_thread, shown>>
    /\ UNCHANGED <<turnVars, toolVars, sessionVars>>

NextThreads ==
    \/ ThreadRegister
    \/ CallbackReceive
    \/ CallbackPut
    \/ CallbackAppend
    \/ ConsumerDrain
    \/ ConsumerFilter
    \/ ConsumerPrune
    \/ ConsumerReturn
    \/ ConsumerClearList
    \/ ConsumerClearQueue
    \/ Clock

(***************************************************************************)
(* Specifications.                                                         *)
(***************************************************************************)
\* The run driver, started on any thread, with an idle approval service.
InitTurn == TurnInit /\ ApprovalInit /\ ToolInit /\ SessionInit /\ ThreadInit
SpecTurn == InitTurn /\ [][NextTurn]_vars

\* The approval service, with the run driver idle on a new thread.
InitApproval == TurnInit /\ thread = <<>> /\ ApprovalInit /\ ToolInit /\ SessionInit /\ ThreadInit
SpecApproval == InitApproval /\ [][NextApproval]_vars

\* The approval service where time keeps passing.  Nothing in the sources
\* calls check_notifications or clear_shown_notifications on a schedule (the
\* chat loop calls them when the user types a line), so no fairness is
\* assumed for them.
InitApprovalLive == TurnInit /\ thread = <<>> /\ ApprovalInit /\ ToolInit /\ SessionInit /\ ThreadInit
SpecApprovalLive == InitApprovalLive /\ [][NextApproval]_vars /\ WF_vars(Clock)

\* The approval service with callbacks of any status string.
InitCallback == TurnInit /\ thread = <<>> /\ ApprovalInit /\ ToolInit /\ SessionInit /\ ThreadInit
SpecCallback == InitCallback /\ [][NextCallback]_vars

\* The callback thread and the chat loop, interleaved.
InitThreads == TurnInit /\ thread = <<>> /\ ApprovalInit /\ ToolInit /\ SessionInit /\ ThreadInit
SpecThreads == InitThreads /\ [][NextThreads]_vars

\* The leave tool, the callback handler and the consumer of notifications.
InitLeave ==
    /\ TurnInit /\ thread = <<>>
    /\ ApprovalInit
    /\ ToolIdle /\ callback_service_imported \in BOOLEAN
    /\ SessionInit
    /\ ThreadInit
SpecLeave == InitLeave /\ [][NextLeave]_vars

\* The session alone.
InitSession == TurnInit /\ thread = <<>> /\ ApprovalInit /\ ToolInit /\ SessionInit /\ ThreadInit
SpecSession == InitSession /\ [][NextSession]_vars

\* The run driver and the session, each from its start.
InitCore == TurnInit /\ ApprovalInit /\ ToolInit /\ SessionInit /\ ThreadInit
SpecCore == InitCore /\ [][NextCore]_vars

(***************************************************************************)
(* Part I.  Properties of the run driver (checked under SpecTurn).         *)
(***************************************************************************)
\* process_message returned from its except branch.
ReturnedByExcept == pc = "done" /\ result.run_status = Absent

TimeoutMessage ==
    <<"Request timed out after", ToString(iterations * 2), "seconds. Status:", run_status>>

OutputsFor(outputs, id) == { k \in 1..Len(outputs) : outputs[k].tool_call_id = id }

\* C1: whenever the run is observed as completed and the thread's most recent
\* assistant message has text X, process_message returns status success with
\* message X, at whichever poll the completed status is first observed.
C1_CompletedYieldsSuccess ==
    (/\ pc = "done"
     /\ ~ReturnedByExcept
     /\ run_status = "completed"
     /\ LatestText(thread) # None)
    => (result.status = "success" /\ result.message = <<LatestText(thread)>>)

\* C2: a run that never leaves queued / in_progress / requires_action is
\* refreshed exactly max_iterations times and never more; process_message then
\* returns status error with the timeout message and the last observed status.
C2_NonTerminalRunTimesOut ==
    /\ iterations <= max_iterations
    /\ (pc = "done" /\ ~ReturnedByExcept /\ run_status \in NonTerminal)
       => /\ iterations = max_iterations
          /\ result.status = "error"
          /\ result.message = TimeoutMessage
          /\ result.run_status = run_status

\* C2 witness: the run was in requires_action at every refresh up to the cap
\* and the timeout result was returned.
C2_Witness ==
    /\ pc = "done"
    /\ run_status = "requires_action"
    /\ iterations = max_iterations
    /\ result.status = "error"
    /\ result.message = TimeoutMessage

\* C3: the outputs of every requires_action batch hold exactly one entry for
\* each tool call of the batch, keyed by the call's id, also for a call that
\* names a tool the driver does not execute locally.
C3_OneOutputPerCall ==
    \A i \in 1..Len(tool_calls) :
        Cardinality(OutputsFor(tool_outputs, tool_calls[i].id)) = 1

\* C4: a tool call whose name is not a registered tool gets the output
\* {error: unknown_function, message} under its call id.
C4_UnknownToolGetsErrorOutput ==
    \A i \in 1..Len(tool_calls) :
        (tool_calls[i].name \notin LocalTools /\ tool_calls[i].arguments = "valid")
        => \E k \in OutputsFor(tool_outputs, tool_calls[i].id) :
              /\ Len(tool_outputs[k].output) >= 3
              /\ tool_outputs[k].output[2] = "error"
              /\ tool_outputs[k].output[3] = "unknown_function"

\* A call to a local tool that fails: bad arguments, an exception, or an
\* error object as the result.
FailingLocalCall(call) ==
    /\ call.name \in LocalTools
    /\ call.arguments = "invalid" \/ call.behaviour \in {"raises", "returns_error"}

FailureOutput(call) ==
    IF call.arguments = "invalid" THEN InvalidArguments
    ELSE IF call.behaviour = "raises" THEN ExecutionError(call.name)
    ELSE <<"error", "permission_denied">>

\* C5: in every loop pass that handles a requires_action batch, a local tool
\* call that returns an error object, raises, or has unparsable arguments
\* gets its output (the error object, execution_error, invalid_arguments), the
\* local calls after it in the batch get theirs, and the turn goes on polling:
\* process_message has not returned.
C5_ToolFailureIsFedBack ==
    [][ (pc = "poll" /\ iterations' = iterations + 1 /\ run_status' = "requires_action")
        => \A i \in 1..Len(tool_calls') :
              FailingLocalCall(tool_calls'[i])
              => /\ \E k \in 1..Len(tool_outputs') :
                       tool_outputs'[k] = [tool_call_id |-> tool_calls'[i].id,
                                           output |-> json_dumps(FailureOutput(tool_calls'[i]))]
                 /\ \A j \in (i + 1)..Len(tool_calls') :
                       tool_calls'[j].name \in LocalTools
                       => OutputsFor(tool_outputs', tool_calls'[j].id) # {}
                 /\ pc' = "poll"
                 /\ result' = NoResult ]_vars

\* C5 witness: a batch whose first call raised and whose second returned an
\* error object; both outputs were submitted and the driver is still polling.
C5_Witness ==
    /\ pc = "poll"
    /\ Len(tool_calls) = 2
    /\ tool_calls[1].arguments = "valid" /\ tool_calls[1].behaviour = "raises"
    /\ tool_calls[2].arguments = "valid" /\ tool_calls[2].behaviour = "returns_error"
    /\ Len(tool_outputs) = 2
    /\ tool_outputs[2].output = json_dumps(<<"error", "permission_denied">>)

(***************************************************************************)
(* Part II.  Properties of the approval service (checked under             *)
(* SpecApproval).                                                          *)
(***************************************************************************)
\* How many notifications of a list are about id.
NotifCount(notifications, id) ==
    Cardinality({ k \in 1..Len(notifications) : notifications[k].approval_id = id })

\* id was registered once and one decision was accepted for it, APPROVED.
ApprovedOnce(id) == registrations[id] = 1 /\ hist[id].statuses = <<"APPROVED">>

C7_UnknownIdIsRefused ==
    [][ (/\ ret'.op = "handle_approval_response"
         /\ now' = now
         /\ registrations[ret'.id] = 0)
        => /\ ret'.status = "error"
           /\ UNCHANGED <<pending_approvals, approval_responses, notification_queue,
                          global_recent_notifications>> ]_vars

\* C7 witness: a decision for a never registered id was refused while the
\* service held a record and a notification of another id.
C7_Witness ==
    /\ ret.op = "handle_approval_response"
    /\ ret.status = "error"
    /\ registrations[ret.id] = 0
    /\ ret.id \notin DOMAIN pending_approvals \cup DOMAIN approval_responses
    /\ notification_queue # <<>>

\* C8: every successful handle_approval_response, for any request type and
\* either decision, puts one notification in the queue and one in the
\* windowed list.
C8_EveryResolutionNotifies ==
    [][ (/\ ret'.op = "handle_approval_response"
         /\ ret'.status = "success"
         /\ pending_approvals' # pending_approvals)
        => /\ Len(notification_queue') = Len(notification_queue) + 1
           /\ Len(global_recent_notifications') = Len(global_recent_notifications) + 1 ]_vars

\* C9: for an id registered once, at most one handle_approval_response
\* succeeds, and the record it stored in approval_responses is never changed
\* afterwards.
C9_ResolvedRecordIsFinal ==
    [][ \A a \in Ids :
          registrations'[a] = 1
          => /\ Len(hist'[a].statuses) <= 1
             /\ a \in DOMAIN approval_responses
                => /\ a \in DOMAIN approval_responses'
                   /\ approval_responses'[a] = approval_responses[a] ]_vars

\* C9 witness: a second decision was delivered for an id registered once and
\* already resolved, and was refused.
C9_Witness ==
    \E a \in Ids :
        /\ registrations[a] = 1
        /\ Len(hist[a].statuses) = 1
        /\ a \in DOMAIN approval_responses
        /\ ret = Ret("handle_approval_response", a, "error")

\* C10: a check_notifications that directly follows clear_shown_notifications
\* returns has_notifications false, no notifications and count 0.
C10_CheckAfterClearIsEmpty ==
    [][ (ret.op = "clear_shown_notifications" /\ ret'.op = "check_notifications")
        => /\ ret'.has_notifications = FALSE
           /\ ret'.notifications = <<>>
           /\ ret'.count = 0 ]_vars

\* C10 witness: a notification that was still fresh was cleared, and the
\* check that followed returned nothing.
C10_Witness ==
    \E a \in Ids :
        /\ hist[a].statuses = <<"REJECTED">>
        /\ hist[a].view = "cleared"
        /\ now - approval_responses[a].completed_at < notification_timeout
        /\ ret.op = "check_notifications"
        /\ ret.has_notifications = FALSE
        /\ ret.count = 0

\* The age of a returned notification at the time `now`: its details carry
\* completed_at, the time at which it was created.
Age(n) == now - n.details.completed_at

\* C11: a notification created notification_timeout seconds or more before a
\* check_notifications call is not in that call's result, whether or not a
\* check or a clear happened since it was created.
C11_OldNotificationNeverReturned ==
    [][ (ret'.op = "check_notifications" /\ now' = now)
        => \A k \in 1..Len(ret'.notifications) :
              Age(ret'.notifications[k]) < notification_timeout ]_vars

\* C11 as amended: a notification created notification_timeout seconds or
\* more before a check_notifications call is in that call's result only when
\* it is still in the queue, that is when neither check_notifications nor
\* clear_shown_notifications was called since it was created; after such a
\* call it is not returned any more.
C11_OldNotificationOnlyFromQueue ==
    [][ (ret'.op = "check_notifications" /\ now' = now)
        => \A k \in 1..Len(ret'.notifications) :
              Age(ret'.notifications[k]) >= notification_timeout
              => /\ InSeq(ret'.notifications[k], notification_queue)
                 /\ hist[ret'.notifications[k].approval_id].view = "unread" ]_vars

\* C11 witness: a check returned a notification that was a whole timeout old
\* and pruned it from the windowed list.
C11_Witness ==
    /\ ret.op = "check_notifications"
    /\ ret.count >= 1
    /\ \A k \in 1..Len(ret.notifications) : Age(ret.notifications[k]) >= notification_timeout
    /\ global_recent_notifications = <<>>
    /\ notification_queue = <<>>

\* id has a notification in the queue or in the windowed list.
Stored(id) ==
    \/ \E k \in 1..Len(notification_queue) : notification_queue[k].approval_id = id
    \/ \E k \in 1..Len(global_recent_notifications) :
          global_recent_notifications[k].approval_id = id

\* C12: every notification emitted is eventually removed from the queue and
\* from the windowed list, by a drain, a clear or its expiry.
C12_EveryNotificationIsRemoved ==
    \A a \in Ids : Stored(a) ~> ~Stored(a)

\* C13: once id is resolved, check_notifications, clear_shown_notifications,
\* the passing of time and the resolution of another id leave its completed
\* record as get_approval_status returns it; the first three leave
\* pending_approvals and approval_responses unchanged.
C13_CompletedRecordIsKept ==
    [][ \A a \in Ids :
          (a \in DOMAIN approval_responses /\ a \notin DOMAIN pending_approvals)
          => /\ get_approval_status(a) =
                   [status |-> "success", approval_status |-> "completed",
                    data |-> approval_responses[a]]
             /\ (\/ ret'.op \in {"check_notifications", "clear_shown_notifications"}
                 \/ now' # now)
                => /\ UNCHANGED <<pending_approvals, approval_responses>>
                   /\ get_approval_status(a)' = get_approval_status(a)
             /\ (ret'.op = "handle_approval_response" /\ ret'.id # a)
                => get_approval_status(a)' = get_approval_status(a) ]_vars

\* C13 witness: both ids are resolved, the notification of the one resolved
\* first has expired and was pruned by a check, a clear followed, and the
\* status lookup still returns its completed record.
C13_Witness ==
    \E a, b \in Ids :
        /\ a # b
        /\ a \in DOMAIN approval_responses /\ b \in DOMAIN approval_responses
        /\ approval_responses[a].completed_at + notification_timeout <= now
        /\ approval_responses[b].completed_at > approval_responses[a].completed_at
        /\ hist[a].view = "cleared"
        /\ ~Stored(a)
        /\ get_approval_status(a).approval_status = "completed"
        /\ get_approval_status(a).data.completed_at = approval_responses[a].completed_at

(***************************************************************************)
(* Part III.  Properties of the leave tool and the callback handler        *)
(* (checked under SpecLeave).                                              *)
(***************************************************************************)
\* The notifications of a list that are about id.
NotifsFor(notifications, id) ==
    { k \in 1..Len(notifications) : notifications[k].approval_id = id }

RegisteredUrl(id) ==
    IF id \in DOMAIN pending_approvals THEN pending_approvals[id].callback_url
    ELSE IF id \in DOMAIN approval_responses THEN approval_responses[id].callback_url
    ELSE NoUrl

\* C15: every invocation of request_leave_approval registers a pending
\* request under a fresh id before the Logic App is called, and the
\* callbackUrl of the outbound payload is the URL of that registration.
C15_EveryInvocationRegisters ==
    [][ (tool_pc = "idle" /\ tool_pc' = "posting")
        => \E a \in Ids :
              /\ registrations[a] = 0
              /\ a \in DOMAIN pending_approvals'
              /\ pending_approvals'[a].status = "pending"
              /\ payload'.callbackUrl = pending_approvals'[a].callback_url ]_vars

\* C15 as amended: an invocation made without a callback_url argument, with
\* the callback service imported, registers a pending request under a fresh
\* id before the Logic App is called and puts the URL of that registration in
\* the payload; an invocation that passes a callback_url, or runs without
\* the callback service, registers nothing, and the payload carries the
\* caller's URL or no callbackUrl at all.
C15_RegistersUnlessUrlGiven ==
    [][ (tool_pc = "idle" /\ tool_pc' = "posting")
        => \/ /\ callback_service_imported
              /\ \E a \in Ids :
                    /\ registrations[a] = 0 /\ registrations'[a] = 1
                    /\ a \notin DOMAIN pending_approvals \cup DOMAIN approval_responses
                    /\ a \in DOMAIN pending_approvals'
                    /\ pending_approvals'[a].status = "pending"
                    /\ payload'.callbackUrl = pending_approvals'[a].callback_url
           \/ /\ UNCHANGED <<pending_approvals, approval_responses, registrations>>
              /\ payload'.callbackUrl \in (CallerUrls \ {NoUrl}) \cup {AbsentUrl}
              /\ payload'.callbackUrl = AbsentUrl => ~callback_service_imported ]_vars

\* C15 witness: the tool is awaiting the Logic App with the URL of its own
\* pending registration in the payload.
C15_Witness ==
    \E a \in Ids :
        /\ tool_pc = "posting"
        /\ requested[a] # <<>>
        /\ a \in DOMAIN pending_approvals
        /\ pending_approvals[a].status = "pending"
        /\ payload.callbackUrl = RegisteredUrl(a)
        /\ ret = Ret("register_approval_request", a, "returned")

(***************************************************************************)
(* Part IV.  Properties of the session (checked under SpecSession, and     *)
(* with the run driver under SpecCore).                                    *)
(***************************************************************************)
\* The session holds an agent handle: the agent object and the id of its
\* backend agent.
HoldsAgent(s) == s.agent # NoHandle /\ s.agent_id # NoHandle

\* The session is active: it has an agent and a thread.
Active(s) == s.agent # NoHandle /\ s.thread_id # NoHandle

C17_InactiveSessionRecovers ==
    [][ (/\ sret'.op = "process_message"
         /\ sret'.healthy
         /\ sret'.message = "text"
         /\ ~Active(session))
        => /\ Active(session')
           /\ sret'.thread_id = session'.thread_id
           /\ sret'.status \in DriverStatuses ]_vars

\* C18: when initialize() fails, agent, agent_id, thread_id and
\* project_context are all empty afterwards.
C18_FailedInitializeLeavesNothing ==
    (sret.op = "initialize" /\ sret.returned = "False") => session = NewSession

\* C19: initialize() on an active session makes no backend call, leaves
\* agent, agent_id and thread_id unchanged and reports success.
C19_InitializeIsIdempotent ==
    [][ (sret'.op = "initialize" /\ Active(session))
        => /\ session' = session
           /\ backend' = backend
           /\ sret'.returned = "True" ]_vars

\* C20: reset_session on a session that holds an agent handle keeps agent and
\* agent_id, creates and deletes no agent, and makes the new thread the
\* session's thread; only a session without an agent handle is torn down and
\* initialized again.
C20_ResetKeepsAgent ==
    [][ sret'.op = "reset_session"
        => IF HoldsAgent(session)
           THEN /\ session'.agent = session.agent
                /\ session'.agent_id = session.agent_id
                /\ session'.project_context = session.project_context
                /\ backend'.objects = backend.objects
                /\ backend'.agents = backend.agents
                /\ backend'.live = backend.live
                /\ backend'.deleted = backend.deleted
                /\ sret'.healthy => sret'.status = "success"
                /\ sret'.status = "success"
                   => /\ backend'.threads = backend.threads + 1
                      /\ session'.thread_id = backend'.threads
                      /\ sret'.thread_id = session'.thread_id
                /\ sret'.status = "error" => session' = session /\ backend' = backend
           ELSE sret'.status = "success"
                => /\ backend'.objects = backend.objects + 1
                   /\ backend'.agents = backend.agents + 1
                   /\ session'.agent = backend'.objects
                   /\ session'.agent_id = backend'.agents ]_vars

\* C20 witness: a reset gave an active session its second thread and left it
\* with its first agent, the only one the backend ever made.
C20_Witness ==
    /\ sret.op = "reset_session"
    /\ sret.status = "success"
    /\ session.agent = 1 /\ session.agent_id = 1
    /\ session.thread_id = 2
    /\ backend.agents = 1 /\ backend.live = {1} /\ backend.deleted = 0

\* C21: after cleanup() returns, agent, agent_id, thread_id and
\* project_context are all empty, whatever the backend did during the call
\* (a failed delete, a failure while leaving the project context).
C21_CleanupClearsAll ==
    sret.op = "cleanup" => session = NewSession

\* C22: cleanup() on a session that is torn down or was never initialized
\* changes neither the session nor the backend, and a cleanup() that directly
\* follows a cleanup() changes nothing either: two calls have the effect of
\* one.
C22_CleanupIsIdempotent ==
    [][ sret'.op = "cleanup"
        => /\ session = NewSession => (session' = NewSession /\ backend' = backend)
           /\ sret.op = "cleanup" => (session' = session /\ backend' = backend) ]_vars

\* C23: in every reachable state a non-empty thread_id comes with a non-empty
\* agent and agent_id whose backend agent has not been deleted.
C23_ThreadImpliesLiveAgent ==
    session.thread_id # NoHandle
    => (HoldsAgent(session) /\ session.agent_id \in backend.live)

(***************************************************************************)
(* Part I.  Further properties of the run driver (checked under SpecTurn). *)
(***************************************************************************)
\* process_message returned the timeout result of lines 342-349.
ReturnedTimeout ==
    /\ pc = "done"
    /\ Len(result.message) = 4
    /\ result.message[1] = "Request timed out after"

\* C24: process_message returns the timeout error only when the last observed
\* run status is queued, in_progress or requires_action; a run last observed
\* as completed or failed is never reported as a timeout, also when that
\* status was observed on the last permitted poll.
C24_TimeoutOnlyWhenNonTerminal ==
    ReturnedTimeout => run_status \in NonTerminal

\* The messages the backend added to the thread after the user message of
\* this turn (the thread lists the newest first).
RECURSIVE TurnMessages(_)
TurnMessages(th) ==
    IF th = <<>> \/ Head(th).role = "user" THEN <<>>
    ELSE <<Head(th)>> \o TurnMessages(Tail(th))

\* C25: when the run completes without an assistant message of this turn,
\* process_message returns status error with the message "No response
\* generated", also when the thread holds assistant messages of earlier
\* turns: their text is never returned as the answer to this turn.
C25_NoNewMessageIsAnError ==
    (/\ pc = "done"
     /\ ~ReturnedByExcept
     /\ run_status = "completed"
     /\ TurnMessages(thread) = <<>>)
    => (result.status = "error" /\ result.message = <<"No response generated">>)

(***************************************************************************)
(* Part II.  Further properties of the approval service (checked under     *)
(* SpecApproval) and of the callback handler (checked under SpecLeave).    *)
(***************************************************************************)
\* id has a resolved record and is not pending again.
Resolved(id) == id \in DOMAIN approval_responses /\ id \notin DOMAIN pending_approvals

\* C28: a second decision delivered for an approval id that is already
\* resolved is accepted (reported as success) and overwrites the stored
\* record with the new decision.
C28_SecondDecisionOverwrites ==
    [][ \A a \in Ids, d \in Decisions :
          (d.status # None /\ Resolved(a) /\ handle_approval_response(a, d))
          => /\ ret'.status = "success"
             /\ approval_responses'[a] = CompletedRecord(approval_responses[a], d, now) ]_vars

\* C28 as amended: a decision delivered for an approval id that is already
\* resolved (and was not registered again) is refused: the call reports
\* status error and leaves the stored record, pending_approvals, the queue
\* and the windowed list unchanged.
C28_SecondDecisionIsRefused ==
    [][ (ret'.op = "handle_approval_response" /\ now' = now /\ Resolved(ret'.id))
        => /\ ret'.status = "error"
           /\ UNCHANGED <<pending_approvals, approval_responses, notification_queue,
                          global_recent_notifications>> ]_vars

\* C28 witness: an approved request got a second decision at a later time,
\* while another request was pending; the decision was refused and the
\* record still says approved.
C28_Witness ==
    \E a, b \in Ids :
        /\ Resolved(a)
        /\ b \in DOMAIN pending_approvals
        /\ approval_responses[a].status = "approved"
        /\ approval_responses[a].completed_at < now
        /\ ret = Ret("handle_approval_response", a, "error")

\* C30: a callback whose JSON body has no status field, delivered for a
\* pending approval id, does not resolve the request: the record stays in
\* pending_approvals as it was, with status pending, approval_responses is
\* unchanged, no notification is emitted, and the handler answers with the
\* error payload of handle_approval_response.
C30_MissingStatusDoesNotResolve ==
    [][ \A a \in Ids, d \in Decisions :
          (/\ d.status = None
           /\ a \in DOMAIN pending_approvals
           /\ do_POST(<<"api", "approval", "callback", a>>,
                      [kind |-> "object", decision |-> d]))
          => /\ a \in DOMAIN pending_approvals'
             /\ pending_approvals'[a] = pending_approvals[a]
             /\ pending_approvals'[a].status = "pending"
             /\ UNCHANGED <<approval_responses, notification_queue,
                            global_recent_notifications>>
             /\ http_response' = [code |-> "200", result |-> "error"] ]_vars

\* C30 witness: the callback for a request the leave tool registered was
\* answered with an error payload, and the request is still pending.
C30_Witness ==
    \E a \in Ids :
        /\ requested[a] # <<>>
        /\ a \in DOMAIN pending_approvals
        /\ pending_approvals[a].status = "pending"
        /\ a \notin DOMAIN approval_responses
        /\ ret = Ret("handle_approval_response", a, "error")
        /\ http_response = [code |-> "200", result |-> "error"]
        /\ notification_queue = <<>>

\* The values the data model gives the status of an approval record.
RecordStatuses == {"pending", "approved", "rejected"}

\* C29: in every reachable state the status of every record in
\* pending_approvals or approval_responses is pending, approved or rejected,
\* whatever status the callback body carried.
C29_RecordStatusInDomain ==
    /\ \A a \in DOMAIN pending_approvals : pending_approvals[a].status \in RecordStatuses
    /\ \A a \in DOMAIN approval_responses : approval_responses[a].status \in RecordStatuses

(***************************************************************************)
(* Part V.  Properties of the two threads (checked under SpecThreads).     *)
(***************************************************************************)
\* A notification was emitted for id: a decision was accepted for it, other
\* than the approval of a request that is not a leave request.
Emitted(id) ==
    /\ hist[id].statuses # <<>>
    /\ id \in DOMAIN approval_responses
    /\ EmittedNotifications(id, hist[id].statuses[1], approval_responses[id]) # <<>>

\* Neither thread is inside a call.
Quiet == callback_thread.pc = "idle" /\ consumer.pc = "idle"

\* C26: with the callback thread running handle_approval_response while the
\* chat loop calls check_notifications and then clear_shown_notifications,
\* no notification is lost: a notification that was emitted and is no
\* longer in the queue, in the windowed list or in the hands of a running
\* call has been in the result of a check_notifications call.
C26_NoNotificationIsLost ==
    \A a \in Ids : (Quiet /\ Emitted(a) /\ ~Stored(a)) => shown[a] >= 1

\* C27: a consumer that calls clear_shown_notifications after every
\* check_notifications that returned something is never shown a notification
\* twice: no notification is in the results of two check_notifications
\* calls.
C27_NeverShownTwice ==
    \A a \in Ids : shown[a] <= 1

(***************************************************************************)
(* Part III, continued.  Properties of the callback endpoint.              *)
(***************************************************************************)
\* A path of exactly the four segments api / approval / callback / <id>.
ExactPath(path) ==
    /\ Len(path) = 4
    /\ path[1] = "api" /\ path[2] = "approval" /\ path[3] = "callback"

\* C31: the callback handler rejects with 404, and without touching the
\* tracker, every POST whose path is not exactly the four segments
\* api / approval / callback / <id>; a path with trailing segments after the
\* id is rejected too.
C31_OnlyExactPathIsAccepted ==
    [][ \A path \in Paths, body \in Bodies :
          (~ExactPath(path) /\ do_POST(path, body))
             => (http_response'.code = "404" /\ UNCHANGED approvalVars) ]_vars

\* C32: after the leave tool returns, with success or with failure, the
\* request it registered is as it was: the return of the tool changes
\* neither pending_approvals nor approval_responses (no rollback on
\* failure), and a record leaves pending_approvals only in a step of
\* handle_approval_response that accepted a decision for it and moved it to
\* approval_responses.
C32_ToolReturnKeepsRegistration ==
    [][ /\ (tool_pc = "posting" /\ tool_pc' = "idle")
            => UNCHANGED <<pending_approvals, approval_responses>>
        /\ \A a \in Ids :
              (a \in DOMAIN pending_approvals /\ a \notin DOMAIN pending_approvals')
                 => /\ ret' = Ret("handle_approval_response", a, "success")
                    /\ a \in DOMAIN approval_responses' ]_vars

\* The tool registered a request and returned a failure; the request is
\* still pending.
C32_Witness ==
    /\ tool_pc = "idle" /\ tool_result = "error"
    /\ \E a \in Ids :
          /\ requested[a] # <<>>
          /\ Len(payload.callbackUrl) = 3 /\ payload.callbackUrl[3] = a
          /\ a \in DOMAIN pending_approvals

(***************************************************************************)
(* Part II, continued.  Independence of ids and agreement of statuses.     *)
(***************************************************************************)
\* Id b is in the same map, with the same record, before and after the step.
SameFor(b) ==
    /\ (b \in DOMAIN pending_approvals) <=> (b \in DOMAIN pending_approvals')
    /\ (b \in DOMAIN approval_responses) <=> (b \in DOMAIN approval_responses')
    /\ b \in DOMAIN pending_approvals => pending_approvals'[b] = pending_approvals[b]
    /\ b \in DOMAIN approval_responses => approval_responses'[b] = approval_responses[b]

\* C33: a call of handle_approval_response for one id changes nothing about
\* any other id: the membership of the other id in pending_approvals and in
\* approval_responses and the contents of its record are the same before
\* and after, in whatever order the ids are resolved.
C33_ResolvingOneIdLeavesOthers ==
    [][ (ret'.op = "handle_approval_response" /\ now' = now)
           => \A b \in Ids \ {ret'.id} : SameFor(b) ]_vars

\* Both ids were resolved, with different decisions, B last while A's
\* record was already stored.
C33_Witness ==
    /\ ret = Ret("handle_approval_response", "B", "success")
    /\ "A" \in DOMAIN approval_responses /\ "B" \in DOMAIN approval_responses
    /\ approval_responses["A"].status = "approved"
    /\ approval_responses["B"].status = "rejected"
    /\ approval_responses["A"].completed_at < approval_responses["B"].completed_at

\* The notifications stored in the queue and in the windowed list.
StoredNotifications ==
    { notification_queue[k] : k \in 1..Len(notification_queue) }
    \cup { CleanNotif(global_recent_notifications[k]) :
             k \in 1..Len(global_recent_notifications) }

\* C37: the status of every notification agrees with the status of the
\* record it carries: an APPROVED notification goes with a record whose
\* status is approved and a REJECTED notification with a record whose
\* status is rejected, whatever status string the callback carried.
C37_NotificationAgreesWithRecord ==
    \A n \in StoredNotifications :
        /\ n.status = "APPROVED" => n.details.status = "approved"
        /\ n.status = "REJECTED" => n.details.status = "rejected"

\* C38: no approval id is in pending_approvals and in approval_responses at
\* the same time, also when an id that was registered or resolved before is
\* registered again; get_approval_status never answers pending for an id
\* that has been resolved.
C38_PendingAndResolvedAreDisjoint ==
    DOMAIN pending_approvals \cap DOMAIN approval_responses = {}

(***************************************************************************)
(* Part I, continued.  Submission of outputs, failed runs, tracked calls.  *)
(***************************************************************************)
\* Where the call with this id stands in a batch.
PositionIn(calls, id) == CHOOSE k \in 1..Len(calls) : calls[k].id = id

\* The call was dispatched: a tracked entry under its id holds more than the
\* placeholder of the capture loop.
Dispatched(tracked, call) ==
    \E k \in 1..Len(tracked) :
        /\ tracked[k].call_id = call.id
        /\ tracked[k].result # <<"Executing...">>
        /\ tracked[k].result # <<"OpenAPI call to", call.name>>

\* C34: within one poll cycle that observes requires_action the outputs are
\* submitted at most once, after every tool call of the batch was
\* dispatched, and they are in the order of the calls in the batch; the run
\* status is refreshed, and outputs are submitted, only in a loop pass, which
\* starts with the poll sleep and counts itself in iterations.
C34_OneOrderedSubmissionPerPoll ==
    [][ /\ (pc = "poll" /\ iterations' = iterations + 1 /\ run_status' = "requires_action")
           => /\ \A i \in 1..Len(tool_calls') : Dispatched(all_tool_calls', tool_calls'[i])
              /\ \A k \in 1..Len(tool_outputs') :
                    \E i \in 1..Len(tool_calls') :
                        tool_calls'[i].id = tool_outputs'[k].tool_call_id
              /\ \A k, l \in 1..Len(tool_outputs') :
                    k < l => PositionIn(tool_calls', tool_outputs'[k].tool_call_id)
                             < PositionIn(tool_calls', tool_outputs'[l].tool_call_id)
        /\ (pc = "poll" /\ (run_status' # run_status \/ tool_outputs' # tool_outputs))
           => iterations' = iterations + 1 ]_vars

\* A batch of two local calls was dispatched in one pass and the two
\* outputs were submitted together, in the order of the calls.
C34_Witness ==
    /\ pc = "poll" /\ run_status = "requires_action" /\ iterations >= 1
    /\ Len(tool_calls) = 2 /\ Len(tool_outputs) = 2
    /\ tool_calls[1].name # tool_calls[2].name
    /\ \A i \in 1..2 :
          /\ tool_calls[i].name \in LocalTools
          /\ tool_outputs[i] = ToolOutput(tool_calls[i], ToolResult(tool_calls[i]))

\* The class of a failure, rate-limit indicators first, then quota
\* indicators, else generic.
FailureClass(details) ==
    IF "rate" \in details \/ "limit" \in details THEN "rate_limit"
    ELSE IF "quota" \in details \/ "usage" \in details THEN "quota"
    ELSE "generic"

\* The class a message of a failed run stands for.
ClassOfMessage(message) ==
    CASE message = <<"Rate limit hit">> -> "rate_limit"
      [] message = <<"Quota/Usage limit hit">> -> "quota"
      [] message \in { <<"Run failed">>,
                       <<"Run failed - possibly due to rate limiting or thread lock">> }
           -> "generic"
      [] OTHER -> "none"

\* C35: a run observed as failed yields an error result whose message is
\* chosen by priority (rate-limit indicators first, then quota indicators,
\* else a generic failure), each class with a message of its own, and the
\* result carries an error_type tag.
C35_FailedRunIsClassified ==
    (pc = "done" /\ ~ReturnedByExcept /\ run_status = "failed")
    => /\ result.status = "error"
       /\ ClassOfMessage(result.message) = FailureClass(result.error_details)
       /\ "error_type" \in DOMAIN result

\* C40: in the tool_calls of a successful result each tool call id appears
\* at most once, also for calls whose execution raised and for runs that
\* stay in requires_action over several polls.
C40_CallIdsAreUnique ==
    (pc = "done" /\ result.status = "success")
    => \A i, j \in 1..Len(result.tool_calls) :
          i # j => result.tool_calls[i].call_id # result.tool_calls[j].call_id

(***************************************************************************)
(* Part IV, continued.  The session across process_message.                *)
(***************************************************************************)
\* C36: process_message on an active session leaves agent, agent_id and
\* thread_id as they were, whatever the outcome of the call (success, an
\* error result of the driver, an exception), and answers with the thread
\* of the session, so the next process_message works on the same thread.
C36_ProcessMessageKeepsSession ==
    [][ (sret'.op = "process_message" /\ Active(session))
        => /\ session'.agent = session.agent
           /\ session'.agent_id = session.agent_id
           /\ session'.thread_id = session.thread_id
           /\ sret'.thread_id = session.thread_id ]_vars

\* process_message failed on an active session (the backend was failing, so
\* the call did not initialize the session itself) and the session still
\* has its agent and its thread.
C36_Witness ==
    /\ sret.op = "process_message" /\ sret.status = "error" /\ ~sret.healthy
    /\ sret.thread_id = 1
    /\ session.agent = 1 /\ session.agent_id = 1 /\ session.thread_id = 1
    /\ backend.live = {1}

(***************************************************************************)
(* Part VI.  The command-line wrapper (src/src/agent_cli.py).  Every call  *)
(* of its process_message builds a CalendarAgent of its own; the backend   *)
(* is the one of Part IV.                                                  *)
(***************************************************************************)
\* agent_cli.process_message (lines 31-68) on backend b.  `fail` names the
\* backend call that raises, if any; a message that is None makes
\* CalendarAgent.process_message raise before its try statement
\* (enhanced_agent.py line 255); delete_agent reports a failed deletion by
\* returning False, which the wrapper ignores.  The only handler is the
\* "except Exception" of lines 62-68, which returns the error dict with the
\* thread_id argument.
cli_process_message(b, message, thread_id, fail, driver, delete_ok) ==
    LET error == [status |-> "error", message |-> "Error processing message",
                  thread_id |-> thread_id]
        b1 == [b EXCEPT !.objects = @ + 1]
        agent_id == b.agents + 1
        b2 == [b1 EXCEPT !.agents = @ + 1, !.live = @ \cup {agent_id}]
        creates == thread_id = NoHandle
        current_thread_id == IF creates THEN b.threads + 1 ELSE thread_id
        b3 == IF creates THEN [b2 EXCEPT !.threads = @ + 1] ELSE b2
        b4 == IF delete_ok
              THEN [b3 EXCEPT !.live = @ \ {agent_id}, !.deleted = @ + 1]
              ELSE b3
    IN  IF fail = "construct" THEN [b |-> b, result |-> error]
        ELSE IF fail \in {"enter", "create_agent"} THEN [b |-> b1, result |-> error]
        ELSE IF creates /\ fail = "create_thread" THEN [b |-> b2, result |-> error]
        ELSE IF message = None THEN [b |-> b3, result |-> error]
        ELSE [b |-> b4,
              result |-> [status |-> driver, message |-> "response",
                          thread_id |-> current_thread_id]]

\* The thread ids a caller passes: none, or a thread an earlier call made.
CliThreads(b) == {NoHandle} \cup 1..b.threads

\* One run of the wrapper, a process of its own.
CliProcessMessage ==
    /\ backend.objects < MaxCreations
    /\ backend.threads < MaxCreations
    /\ \E message \in {"text", None}, thread_id \in CliThreads(backend),
          fail \in Failures, driver \in DriverStatuses, delete_ok \in BOOLEAN :
          LET r == cli_process_message(backend, message, thread_id, fail, driver,
                                       delete_ok)
          IN  /\ backend' = r.b
              /\ sret' = Called("cli_process_message", r.result, fail, message)
    /\ UNCHANGED session
    /\ UNCHANGED <<turnVars, approvalVars, toolVars, threadVars>>

\* main (lines 70-105): the message and the optional thread come from the
\* command line (a message is always a string there); the result is printed
\* as JSON, or as text with exit status 1 when it is an error.
CliMain ==
    /\ backend.objects < MaxCreations
    /\ backend.threads < MaxCreations
    /\ \E thread_id \in CliThreads(backend), json \in BOOLEAN,
          fail \in Failures, driver \in DriverStatuses, delete_ok \in BOOLEAN :
          LET r == cli_process_message(backend, "text", thread_id, fail, driver,
                                       delete_ok)
          IN  /\ backend' = r.b
              /\ sret' = [op |-> "main", status |-> r.result.status,
                          thread_id |-> r.result.thread_id,
                          returned |-> IF ~json /\ r.result.status # "success"
                                       THEN "exit 1" ELSE "exit 0",
                          healthy |-> fail = "none", message |-> "text"]
    /\ UNCHANGED session
    /\ UNCHANGED <<turnVars, approvalVars, toolVars, threadVars>>

NextCli == CliProcessMessage \/ CliMain

\* The wrapper, called again and again on one backend.
InitCli == TurnInit /\ thread = <<>> /\ ApprovalInit /\ ToolInit /\ SessionInit /\ ThreadInit
SpecCli == InitCli /\ [][NextCli]_vars

\* C39: agent_cli.process_message deletes every backend agent it creates
\* before it returns, on every path, also when the creation of the thread
\* or the processing of the message fails: no call leaves an agent it
\* created undeleted.
C39_CliDeletesItsAgent ==
    [][ sret'.op \in {"cli_process_message", "main"}
        => backend'.live \subseteq backend.live ]_vars

====
